---- MODULE Spec2Model ----
(***************************************************************************)
(* MMRReranker (src/mmr_reranker.py): the top-k prefilter, the cosine      *)
(* similarity matrix, the greedy MMR loop of compute_mmr and the batch     *)
(* driver rerank, as called by BPRMMRSim.full_sort_predict.                *)
(*                                                                         *)
(* Numbers.  Scores are integers.  lambda_mmr is a rational <<num, den>>   *)
(* with den > 0.  Embedding components are held in tenths (cosine          *)
(* similarity does not depend on the unit).  Similarities are fixed-point  *)
(* integers in units of 1/SimScale.  An MMR value is held multiplied by    *)
(* den * SimScale, which is positive and so keeps every comparison.        *)
(* Items are numbered from 0 as in the source; users and list positions    *)
(* are numbered from 1.                                                    *)
(***************************************************************************)
EXTENDS Integers, Sequences, FiniteSets, TLC

NumUsers == 2
NumItems == 3
MaxScore == 1
MaxTopK == 3
SimScale == 1000

VARIABLES lambda_mmr, top_k, n_items, all_item_e, scores, topk_scores,
          topk_indices, similarity_matrix, u, selected_items, full_list,
          all_mmr_indices, pc, err

vars == <<lambda_mmr, top_k, n_items, all_item_e, scores, topk_scores,
          topk_indices, similarity_matrix, u, selected_items, full_list,
          all_mmr_indices, pc, err>>

\* ---------------------------------------------------------------- inputs

\* The values lambda_mmr is drawn from: 0, 1/2, 1 and the out-of-range 3/2.
LambdaValues == {<<0, 1>>, <<1, 2>>, <<1, 1>>, <<3, 2>>}

\* Item embeddings of the exhaustive family (in tenths).
Vectors == {<<10, 0>>, <<0, 10>>}

\* The catalog and the score row of the 5-item scenario (embeddings in tenths).
ScenarioCatalog ==
    [i \in 0..4 |-> <<<<10, 0>>, <<0, 10>>, <<10, 0>>, <<9, 1>>, <<-10, 0>>>>[i + 1]]

ScenarioScores == <<[i \in 0..4 |-> 5 - i]>>

CatalogSize == Cardinality(DOMAIN all_item_e)
Users == 1..Len(scores)

\* ------------------------------------------------------------ arithmetic

RoundDiv(a, b) ==
    IF a >= 0 THEN (2 * a + b) \div (2 * b) ELSE -((2 * (-a) + b) \div (2 * b))

RECURSIVE ISqrtBS(_, _, _)
ISqrtBS(lo, hi, x) ==
    IF lo = hi THEN lo
    ELSE LET mid == (lo + hi + 1) \div 2
         IN  IF mid * mid <= x THEN ISqrtBS(mid, hi, x) ELSE ISqrtBS(lo, mid - 1, x)

ISqrt(x) == ISqrtBS(0, IF x < 46340 THEN x ELSE 46340, x)

RECURSIVE Dot(_, _)
Dot(a, b) == IF a = <<>> THEN 0 ELSE Head(a) * Head(b) + Dot(Tail(a), Tail(b))

\* F.normalize(v, p=2, dim=1): v / max(||v||, eps); a zero vector stays zero.
\* The result is in units of 1/SimScale.
F_normalize(v) ==
    LET normS == ISqrt(Dot(v, v) * SimScale * SimScale)
    IN  [k \in 1..Len(v) |->
            IF normS = 0 THEN 0 ELSE RoundDiv(v[k] * SimScale * SimScale, normS)]

\* get_cosine_similarity: matmul(norm_item_e, norm_item_e.T)
get_cosine_similarity(item_e) ==
    LET norm_item_e == [i \in DOMAIN item_e |-> F_normalize(item_e[i])]
    IN  [i \in DOMAIN item_e |->
            [j \in DOMAIN item_e |->
                RoundDiv(Dot(norm_item_e[i], norm_item_e[j]), SimScale)]]

\* --------------------------------------------------------------- torch.topk

Maxes(row, rem) == {i \in rem : \A j \in rem : row[j] <= row[i]}

\* Every way of listing the k largest entries of row in descending order: the
\* order of equal scores, and which of them make the cut, is left open by
\* torch.topk.
RECURSIVE TopKSeqs(_, _, _)
TopKSeqs(row, rem, k) ==
    IF k = 0 THEN {<<>>}
    ELSE UNION {{<<i>> \o t : t \in TopKSeqs(row, rem \ {i}, k - 1)} : i \in Maxes(row, rem)}

torch_topk(row, k) == TopKSeqs(row, DOMAIN row, k)

\* ------------------------------------------------------------- compute_mmr

\* A first pick that takes the tail of the candidate list instead of its head.
first_item_last(list) == list[Len(list)]

\* first_item = full_list[0]
first_item(list) == list[1]

\* item_to_score = {item: topk_scores[id] for id, item in enumerate(topk_indices)}
\* (a later position overwrites an earlier one for the same item)
item_to_score(tscores, tindices) ==
    [item \in {tindices[p] : p \in 1..Len(tindices)} |->
        LET last == CHOOSE p \in 1..Len(tindices) :
                        /\ tindices[p] = item
                        /\ \A q \in 1..Len(tindices) : tindices[q] = item => q <= p
        IN  tscores[last]]

\* similarity_matrix[item, selected_items].sum()
RECURSIVE selected_similarity(_, _, _)
selected_similarity(sim, item, selected) ==
    IF selected = <<>> THEN 0
    ELSE sim[item][Head(selected)] + selected_similarity(sim, item, Tail(selected))

\* The two weights exchanged: (1 - lambda) * relevance - lambda * similarity.
mmr_scores_swapped(lam, relevance, similarity_scores) ==
    [i \in 1..Len(relevance) |->
        (lam[2] - lam[1]) * relevance[i] * SimScale - lam[1] * similarity_scores[i]]

\* The weight lambda left off the relevance term: relevance - (1 - lambda) * similarity.
mmr_scores_unweighted(lam, relevance, similarity_scores) ==
    [i \in 1..Len(relevance) |->
        lam[2] * relevance[i] * SimScale - (lam[2] - lam[1]) * similarity_scores[i]]

\* The similarity penalty added instead of subtracted.
mmr_scores_plus(lam, relevance, similarity_scores) ==
    [i \in 1..Len(relevance) |->
        lam[1] * relevance[i] * SimScale + (lam[2] - lam[1]) * similarity_scores[i]]

\* mmr_scores = lambda_mmr * relevance - (1 - lambda_mmr) * similarity_scores
mmr_scores(lam, relevance, similarity_scores) ==
    [i \in 1..Len(relevance) |->
        lam[1] * relevance[i] * SimScale - (lam[2] - lam[1]) * similarity_scores[i]]

\* An argmax that returns the last maximal position.
argmax_last(t) ==
    CHOOSE i \in 1..Len(t) :
        /\ \A j \in 1..Len(t) : t[j] <= t[i]
        /\ \A j \in (i + 1)..Len(t) : t[j] < t[i]

\* torch.argmax: the position of the first maximal value
argmax(t) ==
    CHOOSE i \in 1..Len(t) :
        /\ \A j \in 1..Len(t) : t[j] <= t[i]
        /\ \A j \in 1..(i - 1) : t[j] < t[i]

\* A removal that pops the head of the list whatever item was picked.
list_pop_head(list, x) == Tail(list)

\* list.remove(x): drops the first occurrence of x
RECURSIVE list_remove(_, _)
list_remove(list, x) ==
    IF list = <<>> THEN <<>>
    ELSE IF Head(list) = x THEN Tail(list)
    ELSE <<Head(list)>> \o list_remove(Tail(list), x)

\* A fill loop that reads topk_scores[i - 1]: every score moves one position
\* on and the last one wraps to the front.
reranked_scores_shifted(tscores, combined_list) ==
    [i \in 1..Len(tscores) |->
        IF i <= Len(combined_list)
        THEN tscores[IF i = 1 THEN Len(tscores) ELSE i - 1]
        ELSE "-inf"]

\* reranked_scores: full_like(topk_scores, -inf), then position i of
\* combined_list gets topk_scores[i]
reranked_scores(tscores, combined_list) ==
    [i \in 1..Len(tscores) |-> IF i <= Len(combined_list) THEN tscores[i] ELSE "-inf"]

\* ------------------------------------------------------------------ states

NoLists == [v \in Users |-> <<>>]

\* MMRReranker.__init__ stores its three arguments as given.
Construct ==
    /\ lambda_mmr \in LambdaValues
    /\ top_k \in 0..MaxTopK
    /\ n_items \in 0..(CatalogSize + 1)

Request ==
    \/ /\ all_item_e \in [0..(NumItems - 1) -> Vectors]
       /\ scores \in [1..NumUsers -> [0..(NumItems - 1) -> 0..MaxScore]]
    \/ /\ all_item_e = ScenarioCatalog
       /\ scores = ScenarioScores

Init ==
    /\ Request
    /\ Construct
    /\ topk_scores = NoLists
    /\ topk_indices = NoLists
    /\ similarity_matrix = <<>>
    /\ u = 0
    /\ selected_items = NoLists
    /\ full_list = NoLists
    /\ all_mmr_indices = <<>>
    /\ pc = "rerank"
    /\ err = "none"

\* rerank, line 15: torch.topk raises when k is not in 0..N
RerankTopkError ==
    /\ pc = "rerank"
    /\ n_items \notin 0..CatalogSize
    /\ pc' = "error"
    /\ err' = "RuntimeError: selected index k out of range"
    /\ UNCHANGED <<lambda_mmr, top_k, n_items, all_item_e, scores, topk_scores,
                   topk_indices, similarity_matrix, u, selected_items, full_list,
                   all_mmr_indices>>

\* rerank, lines 15-19: the prefilter of every row and the similarity matrix
Rerank ==
    /\ pc = "rerank"
    /\ n_items \in 0..CatalogSize
    /\ LET results == [v \in Users |-> torch_topk(scores[v], n_items)]
       IN  \E tk \in [Users -> UNION {results[v] : v \in Users}] :
              /\ \A v \in Users : tk[v] \in results[v]
              /\ topk_indices' = tk
              /\ topk_scores' =
                    [v \in Users |-> [p \in 1..n_items |-> scores[v][tk[v][p]]]]
    /\ similarity_matrix' = get_cosine_similarity(all_item_e)
    /\ all_mmr_indices' = <<>>
    /\ u' = 1
    /\ pc' = "for_user"
    /\ UNCHANGED <<lambda_mmr, top_k, n_items, all_item_e, scores, selected_items,
                   full_list, err>>

\* compute_mmr, line 39: full_list[0] of an empty candidate list
FirstItemError ==
    /\ pc = "for_user"
    /\ u \in Users
    /\ topk_indices[u] = <<>>
    /\ pc' = "error"
    /\ err' = "IndexError: list index out of range"
    /\ UNCHANGED <<lambda_mmr, top_k, n_items, all_item_e, scores, topk_scores,
                   topk_indices, similarity_matrix, u, selected_items, full_list,
                   all_mmr_indices>>

\* A first pick that leaves the picked item in the remaining pool
\* (full_list = full_list[1:] left out).
ComputeMMRBegin_keep_head ==
    /\ pc = "for_user"
    /\ u \in Users
    /\ topk_indices[u] # <<>>
    /\ selected_items' = [selected_items EXCEPT ![u] = <<first_item(topk_indices[u])>>]
    /\ full_list' = [full_list EXCEPT ![u] = topk_indices[u]]
    /\ pc' = "while"
    /\ UNCHANGED <<lambda_mmr, top_k, n_items, all_item_e, scores, topk_scores,
                   topk_indices, similarity_matrix, u, all_mmr_indices, err>>

\* rerank, lines 22-29, and compute_mmr, lines 35-44: the call for user u
\* and its first pick
ComputeMMRBegin ==
    /\ pc = "for_user"
    /\ u \in Users
    /\ topk_indices[u] # <<>>
    /\ selected_items' = [selected_items EXCEPT ![u] = <<first_item(topk_indices[u])>>]
    /\ full_list' = [full_list EXCEPT ![u] = Tail(topk_indices[u])]
    /\ pc' = "while"
    /\ UNCHANGED <<lambda_mmr, top_k, n_items, all_item_e, scores, topk_scores,
                   topk_indices, similarity_matrix, u, all_mmr_indices, err>>

\* compute_mmr, line 65: torch.argmax of an empty tensor
ArgmaxError ==
    /\ pc = "while"
    /\ Len(selected_items[u]) < top_k
    /\ full_list[u] = <<>>
    /\ pc' = "error"
    /\ err' = "argmax(): Expected reduction dim to be specified for input.numel() == 0"
    /\ UNCHANGED <<lambda_mmr, top_k, n_items, all_item_e, scores, topk_scores,
                   topk_indices, similarity_matrix, u, selected_items, full_list,
                   all_mmr_indices>>

\* The item one iteration of the loop picks (lines 49-66).
next_item(lam, sim, tscores, tindices, selected, list) ==
    LET score_of == item_to_score(tscores, tindices)
        relevance == [i \in 1..Len(list) |-> score_of[list[i]]]
        similarity_scores ==
            [i \in 1..Len(list) |-> selected_similarity(sim, list[i], selected)]
    IN  list[argmax(mmr_scores(lam, relevance, similarity_scores))]

\* compute_mmr, lines 46-70: one iteration of the greedy loop
GreedyStep ==
    /\ pc = "while"
    /\ Len(selected_items[u]) < top_k
    /\ full_list[u] # <<>>
    /\ LET nxt == next_item(lambda_mmr, similarity_matrix, topk_scores[u],
                            topk_indices[u], selected_items[u], full_list[u])
       IN  /\ selected_items' = [selected_items EXCEPT ![u] = Append(@, nxt)]
           /\ full_list' = [full_list EXCEPT ![u] = list_remove(@, nxt)]
    /\ UNCHANGED <<lambda_mmr, top_k, n_items, all_item_e, scores, topk_scores,
                   topk_indices, similarity_matrix, u, all_mmr_indices, pc, err>>

\* A driver that hands every call the first user's prefilter scores
\* (topk_scores[0] for topk_scores[u]).
ComputeMMRReturn_first_user ==
    /\ pc = "while"
    /\ Len(selected_items[u]) >= top_k
    /\ all_mmr_indices' =
          Append(all_mmr_indices,
                 reranked_scores(topk_scores[1], selected_items[u] \o full_list[u]))
    /\ u' = u + 1
    /\ pc' = "for_user"
    /\ UNCHANGED <<lambda_mmr, top_k, n_items, all_item_e, scores, topk_scores,
                   topk_indices, similarity_matrix, selected_items, full_list, err>>

\* compute_mmr, lines 72-79, and rerank, line 30: the loop is over, the
\* call returns reranked_scores and rerank appends it
ComputeMMRReturn ==
    /\ pc = "while"
    /\ Len(selected_items[u]) >= top_k
    /\ all_mmr_indices' =
          Append(all_mmr_indices,
                 reranked_scores(topk_scores[u], selected_items[u] \o full_list[u]))
    /\ u' = u + 1
    /\ pc' = "for_user"
    /\ UNCHANGED <<lambda_mmr, top_k, n_items, all_item_e, scores, topk_scores,
                   topk_indices, similarity_matrix, selected_items, full_list, err>>

\* rerank, line 32, and full_sort_predict, lines 68-71: the list is returned
RerankReturn ==
    /\ pc = "for_user"
    /\ u \notin Users
    /\ pc' = "done"
    /\ UNCHANGED <<lambda_mmr, top_k, n_items, all_item_e, scores, topk_scores,
                   topk_indices, similarity_matrix, u, selected_items, full_list,
                   all_mmr_indices, err>>

Next ==
    \/ RerankTopkError
    \/ Rerank
    \/ FirstItemError
    \/ ComputeMMRBegin
    \/ ArgmaxError
    \/ GreedyStep
    \/ ComputeMMRReturn
    \/ RerankReturn

Spec == Init /\ [][Next]_vars

\* ------------------------------------------------------------ properties

TypeOK == pc \in {"rerank", "for_user", "while", "done", "error"}

Range(seq) == {seq[p] : p \in 1..Len(seq)}
Pos(seq, x) == CHOOSE p \in 1..Len(seq) : seq[p] = x /\ \A q \in 1..(p - 1) : seq[q] # x
IsPrefix(a, b) == Len(a) <= Len(b) /\ a = SubSeq(b, 1, Len(a))
NoDuplicates(seq) == \A p, q \in 1..Len(seq) : seq[p] = seq[q] => p = q
Min(a, b) == IF a <= b THEN a ELSE b

\* compute_mmr has returned for user v
Returned(v) == v \in Users /\ v < u

\* lambda in [0,1], top_k >= 1, n_items >= 1
ValidParams ==
    /\ 0 <= lambda_mmr[1] /\ lambda_mmr[1] <= lambda_mmr[2]
    /\ top_k >= 1
    /\ n_items >= 1

\* lambda * relevance(c) - (1 - lambda) * (sum of similarity(c, s), s in sel),
\* times lambda's denominator and SimScale, with relevance read from the score matrix
RECURSIVE SimilaritySum(_, _, _)
SimilaritySum(c, sel, n) ==
    IF n = 0 THEN 0 ELSE similarity_matrix[c][sel[n]] + SimilaritySum(c, sel, n - 1)

MMR(v, c, sel) ==
    lambda_mmr[1] * scores[v][c] * SimScale
        - (lambda_mmr[2] - lambda_mmr[1]) * SimilaritySum(c, sel, Len(sel))

\* C1 (as claimed): for valid parameters compute_mmr raises nothing and returns
\* with exactly min(top_k, |candidate pool|) selected items.
C1_SelectedLengthIsMin ==
    (ValidParams /\ n_items <= CatalogSize) =>
        /\ pc # "error"
        /\ \A v \in Users :
              Returned(v) => Len(selected_items[v]) = Min(top_k, Len(topk_indices[v]))

\* C2 (as claimed): what rerank returns for a user is that user's SelectedList:
\* at most top_k entries, the selected identifiers in selection order, or the
\* original score of the item selected at each position.
C2_EmitsSelectedList ==
    (ValidParams /\ pc = "done") =>
        \A v \in Users :
            /\ Len(all_mmr_indices[v]) <= top_k
            /\ \/ all_mmr_indices[v] = selected_items[v]
               \/ all_mmr_indices[v] =
                     [p \in 1..Len(selected_items[v]) |-> scores[v][selected_items[v][p]]]

\* The 5-item scenario: lambda = 0.5, top_k = 3, n_items = 5.
ScenarioRun ==
    /\ all_item_e = ScenarioCatalog
    /\ scores = ScenarioScores
    /\ lambda_mmr = <<1, 2>>
    /\ top_k = 3
    /\ n_items = 5

\* C3 (as claimed): in the scenario item 0 is selected first and item 4 is
\* selected ahead of item 2.
C3_Item4AheadOfItem2 ==
    (ScenarioRun /\ Returned(1)) =>
        /\ selected_items[1][1] = 0
        /\ 4 \in Range(selected_items[1])
        /\ 2 \in Range(selected_items[1]) =>
              Pos(selected_items[1], 4) < Pos(selected_items[1], 2)

\* C3 (amended): in the scenario item 0 is selected first, item 1 second (its
\* MMR value is above that of items 2 and 4) and item 2 third; items 2 and 4
\* have the same MMR value at the second and at the third slot, the tie goes
\* to item 2, and item 4 is not selected.
C3_ScenarioSelection ==
    ScenarioRun =>
        /\ IsPrefix(selected_items[1], <<0, 1, 2>>)
        /\ Returned(1) => selected_items[1] = <<0, 1, 2>>
        /\ (pc = "while" /\ Len(selected_items[1]) < top_k) =>
              /\ MMR(1, 2, selected_items[1]) = MMR(1, 4, selected_items[1])
              /\ MMR(1, 1, <<0>>) > MMR(1, 4, <<0>>)

C3_Witness ==
    ScenarioRun /\ pc = "done" /\ Len(selected_items[1]) = 3

\* The step of compute_mmr's loop that moves an item into user v's selected list.
SelectsFor(v) ==
    /\ pc = "while"
    /\ Len(selected_items'[v]) = Len(selected_items[v]) + 1

Selected(v) == selected_items'[v][Len(selected_items'[v])]

\* C4 (as claimed): every iteration moves a remaining candidate of maximum
\* MMR value into the selected list, the lowest identifier among those of
\* maximum value.
C4_MaxMMRLowestId ==
    [][\A v \in Users :
          SelectsFor(v) =>
              /\ Selected(v) \in Range(full_list[v])
              /\ \A d \in Range(full_list[v]) :
                    /\ MMR(v, d, selected_items[v]) <= MMR(v, Selected(v), selected_items[v])
                    /\ MMR(v, d, selected_items[v]) = MMR(v, Selected(v), selected_items[v])
                          => Selected(v) <= d]_vars

\* C4 (amended): every iteration moves a remaining candidate of maximum MMR
\* value into the selected list; among several of maximum value it is the one
\* that comes first in the remaining pool, which keeps the prefilter order.
C4_MaxMMRFirstInPool ==
    [][\A v \in Users :
          SelectsFor(v) =>
              /\ Selected(v) \in Range(full_list[v])
              /\ \A d \in Range(full_list[v]) :
                    /\ MMR(v, d, selected_items[v]) <= MMR(v, Selected(v), selected_items[v])
                    /\ MMR(v, d, selected_items[v]) = MMR(v, Selected(v), selected_items[v])
                          => Pos(full_list[v], Selected(v)) <= Pos(full_list[v], d)]_vars

\* A second pick that won a tie of MMR values against a lower identifier, with
\* relevance and similarity both at work.
C4_Witness ==
    \E v \in Users :
        /\ lambda_mmr = <<1, 2>>
        /\ pc = "while"
        /\ u = v
        /\ Len(selected_items[v]) = 2
        /\ \E d \in Range(full_list[v]) :
              /\ d < selected_items[v][2]
              /\ scores[v][d] # scores[v][selected_items[v][2]]
              /\ MMR(v, d, <<selected_items[v][1]>>)
                    = MMR(v, selected_items[v][2], <<selected_items[v][1]>>)

\* C5 (as claimed): parameters outside their ranges are rejected before
\* anything is computed: the call does not complete, nothing is selected and
\* nothing is returned for any user.  (The claim also names the error,
\* InvalidParameterError; the formula does not ask for the name.)
C5_InvalidParamsRejected ==
    ~ValidParams =>
        /\ \A v \in Users : selected_items[v] = <<>>
        /\ all_mmr_indices = <<>>
        /\ pc # "done"

\* C6 (as claimed): a prefilter width above the catalog size is clamped to the
\* catalog size: no error, and every candidate set has exactly N entries in
\* descending order of score.
C6_ClampsToCatalogSize ==
    n_items > CatalogSize =>
        /\ pc # "error"
        /\ pc # "rerank" =>
              \A v \in Users :
                  /\ Len(topk_indices[v]) = CatalogSize
                  /\ \A p \in 1..(Len(topk_scores[v]) - 1) :
                        topk_scores[v][p] >= topk_scores[v][p + 1]

\* C7: with lambda = 1 the selection order is the prefilter order: the k-th
\* selected item is the k-th entry of the candidate set.
C7_LambdaOneIsPrefilterOrder ==
    lambda_mmr[1] = lambda_mmr[2] =>
        \A v \in Users :
            selected_items[v] = SubSeq(topk_indices[v], 1, Len(selected_items[v]))

\* Three items selected with lambda = 1 although the second is more similar to
\* the first than the third is.
C7_Witness ==
    \E v \in Users :
        /\ lambda_mmr[1] = lambda_mmr[2]
        /\ Returned(v)
        /\ Len(selected_items[v]) = 3
        /\ similarity_matrix[selected_items[v][2]][selected_items[v][1]]
              > similarity_matrix[selected_items[v][3]][selected_items[v][1]]

\* C8: with lambda = 0, two runs of compute_mmr over the same candidates in the
\* same prefilter order and the same similarity matrix select the same items
\* in the same order, whatever the scores are.
C8_LambdaZeroIgnoresRelevance ==
    lambda_mmr[1] = 0 =>
        \A v, w \in Users :
            (Returned(v) /\ Returned(w) /\ topk_indices[v] = topk_indices[w]) =>
                selected_items[v] = selected_items[w]

\* Two users with the same prefilter order and different scores, whose
\* selection left the prefilter order.
C8_Witness ==
    \E v, w \in Users :
        /\ lambda_mmr[1] = 0
        /\ Returned(v) /\ Returned(w)
        /\ topk_indices[v] = topk_indices[w]
        /\ topk_scores[v] # topk_scores[w]
        /\ Len(selected_items[v]) >= 2
        /\ ~IsPrefix(selected_items[v], topk_indices[v])

\* C9 (as claimed): the first selected item has the maximum score of the
\* candidates, and the lowest identifier among those of maximum score.
C9_FirstIsMaxLowestId ==
    \A v \in Users :
        selected_items[v] # <<>> =>
            \A j \in Range(topk_indices[v]) :
                /\ scores[v][j] <= scores[v][selected_items[v][1]]
                /\ scores[v][j] = scores[v][selected_items[v][1]] => selected_items[v][1] <= j

\* C9 (amended): the first selected item is the head of the candidate set and
\* has the maximum score of the row; among several items of maximum score it
\* is the one torch.topk lists first, which need not be the lowest identifier.
C9_FirstIsMaxScore ==
    \A v \in Users :
        selected_items[v] # <<>> =>
            /\ selected_items[v][1] = topk_indices[v][1]
            /\ \A j \in DOMAIN scores[v] : scores[v][j] <= scores[v][selected_items[v][1]]

\* A first pick among candidates of different scores.
C9_Witness ==
    \E v \in Users :
        /\ selected_items[v] # <<>>
        /\ \E j \in Range(topk_indices[v]) : scores[v][j] < scores[v][selected_items[v][1]]

\* C10: a user's selected list never holds an identifier twice, and it only
\* grows by appending: what is in it is never removed or moved.
C10_NoDuplicatesAppendOnly ==
    /\ [](\A v \in Users : NoDuplicates(selected_items[v]))
    /\ [][\A v \in Users : IsPrefix(selected_items[v], selected_items'[v])]_vars

C10_Witness ==
    \E v \in Users : Returned(v) /\ Len(selected_items[v]) = 3

\* The k largest values of a row in descending order, computed from the row alone.
RECURSIVE TopValues(_, _, _)
TopValues(row, rem, k) ==
    IF k = 0 \/ rem = {} THEN <<>>
    ELSE LET m == CHOOSE i \in rem : \A j \in rem : row[j] <= row[i]
         IN  <<row[m]>> \o TopValues(row, rem \ {m}, k - 1)

\* What a step of the per-user loop leaves alone: the inputs, the similarity
\* matrix, the prefilter output, the other users' lists, the results stored.
UserStepFrame ==
    pc \in {"for_user", "while"} =>
        /\ scores' = scores
        /\ all_item_e' = all_item_e
        /\ similarity_matrix' = similarity_matrix
        /\ topk_scores' = topk_scores
        /\ topk_indices' = topk_indices
        /\ \A w \in Users \ {u} :
              /\ selected_items'[w] = selected_items[w]
              /\ full_list'[w] = full_list[w]
        /\ IsPrefix(all_mmr_indices, all_mmr_indices')

\* C11: rerank processes users independently.  The result at position v of
\* the returned list is a function of row v of the score matrix alone (with the
\* catalog and the configuration), whatever the other rows are and whichever
\* position v is; two users with the same candidate set end with the same
\* selected list; and a user's computation changes neither the score matrix,
\* the catalog, the similarity matrix, the prefilter output, nor another
\* user's lists or an already stored result.
C11_UsersIndependent ==
    /\ [](\A v \in Users :
            Returned(v) =>
                /\ Len(all_mmr_indices) >= v
                /\ all_mmr_indices[v] = TopValues(scores[v], DOMAIN scores[v], n_items))
    /\ [](\A v, w \in Users :
            (Returned(v) /\ Returned(w) /\ topk_indices[v] = topk_indices[w]
                /\ topk_scores[v] = topk_scores[w]) =>
                    selected_items[v] = selected_items[w])
    /\ [][UserStepFrame]_vars

\* A completed call for two users with different score rows and different results.
C11_Witness ==
    /\ pc = "done"
    /\ Len(all_mmr_indices) = 2
    /\ scores[1] # scores[2]
    /\ all_mmr_indices[1] # all_mmr_indices[2]
    /\ Len(selected_items[2]) >= 2

\* compute_mmr has made its first pick for user v
Started(v) == selected_items[v] # <<>>

\* One iteration moves item c from user v's pool to the end of the selected list.
MovesOne(v) ==
    \E c \in Range(full_list[v]) :
        /\ selected_items'[v] = Append(selected_items[v], c)
        /\ full_list'[v] = SelectSeq(full_list[v], LAMBDA x : x # c)
        /\ Len(full_list'[v]) = Len(full_list[v]) - 1

\* C12: from the first pick on, at the start of every iteration and after the
\* loop, the selected items and the remaining pool are disjoint and together
\* hold exactly the identifiers of the candidate set, each once; every
\* iteration moves exactly one identifier from the pool to the end of the
\* selected items.
C12_SelectedAndPoolPartition ==
    /\ [](\A v \in Users :
            Started(v) =>
                /\ Range(selected_items[v]) \cap Range(full_list[v]) = {}
                /\ Range(selected_items[v]) \cup Range(full_list[v]) = Range(topk_indices[v])
                /\ NoDuplicates(selected_items[v] \o full_list[v])
                /\ Len(selected_items[v]) + Len(full_list[v]) = Len(topk_indices[v]))
    /\ [][\A v \in Users :
            (Started(v) /\ <<selected_items[v], full_list[v]>>'
                              # <<selected_items[v], full_list[v]>>) => MovesOne(v)]_vars

\* A returned call that selected two items, the second not the head of the
\* pool, and left one in the pool.
C12_Witness ==
    \E v \in Users :
        /\ Returned(v)
        /\ Len(selected_items[v]) = 2
        /\ Len(full_list[v]) = 1
        /\ selected_items[v][2] = topk_indices[v][3]

====
